---- MODULE Spec2Model ----
(***************************************************************************)
(* A model of mox's Model base class (src/src/Model.ts): import            *)
(* (fromJson / applyJson / merge), export (toJson), the change tracker     *)
(* (clone, diff, isEqual, reset, getChangesSince) and freeze, run on the   *)
(* User / Profile / Post classes of the test suite.                        *)
(*                                                                         *)
(* JavaScript objects live in a heap: object identity is the heap index.   *)
(* An object's own enumerable properties are an ordered sequence of        *)
(* entries, in insertion order, as Object.keys sees them; the private      *)
(* member _originalState is one of them once fromJson has assigned it.     *)
(***************************************************************************)
EXTENDS Integers, Sequences, FiniteSets, TLC

\* How many state-changing calls the application makes after construction.
MaxOps == 2
\* Scalar payloads of the inputs are 1..MaxVal; 0 is every field's initial value.
MaxVal == 1

VARIABLES heap, user, last, ops, atBirth, freezeCalled

vars == <<heap, user, last, ops, atBirth, freezeCalled>>

----------------------------------------------------------------------------
(* JavaScript values *)

\* A value is a record of one shape: its type t, its number n (of a number, or
\* the identity of a Model instance) and its members s (of an array or mapping).
Undef == [t |-> "undef", n |-> 0, s |-> <<>>]
Null == [t |-> "null", n |-> 0, s |-> <<>>]
Num(n) == [t |-> "num", n |-> n, s |-> <<>>]
Bool(b) == [t |-> "bool", n |-> IF b THEN 1 ELSE 0, s |-> <<>>]
\* a Model instance, by identity
Ref(id) == [t |-> "ref", n |-> id, s |-> <<>>]
Arr(vs) == [t |-> "arr", n |-> 0, s |-> vs]
\* a plain mapping: its entries in insertion order
Obj(es) == [t |-> "obj", n |-> 0, s |-> es]
Entry(k, v) == [k |-> k, v |-> v]

\* !v
Falsy(v) == v.t \in {"undef", "null"} \/ v = Num(0) \/ v = Bool(FALSE)

\* F(e), with e evaluated once, and a sequence written out element by element:
\* these two only fix the order of evaluation.
Bind(e, F(_)) == CHOOSE r \in {F(x) : x \in {e}} : TRUE
Tup(f) == f \o <<>>

\* Object.keys
Keys(es) == Tup([i \in 1..Len(es) |-> es[i].k])
Has(es, k) == \E i \in 1..Len(es) : es[i].k = k
\* o[k]: undefined when o has no such property
Lookup(es, k) ==
    IF Has(es, k) THEN es[CHOOSE i \in 1..Len(es) : es[i].k = k].v ELSE Undef
\* o[k] = v: an existing key keeps its position, a new key is appended
Put(es, k, v) ==
    IF Has(es, k)
    THEN Tup([i \in 1..Len(es) |-> IF es[i].k = k THEN Entry(k, v) ELSE es[i]])
    ELSE Append(es, Entry(k, v))

\* The object that assigning the entries one after the other builds (as
\* Object.fromEntries does, and a loop of o[k] = v on an empty object): a key
\* stands where it first came, with the value that came last.
fromEntries(es) ==
    LET first == SelectSeq(Tup([i \in 1..Len(es) |-> i]),
                           LAMBDA i : \A j \in 1..(i - 1) : es[j].k # es[i].k)
        lastOf(k) == CHOOSE i \in 1..Len(es) :
                        es[i].k = k /\ \A j \in (i + 1)..Len(es) : es[j].k # k
    IN Tup([n \in 1..Len(first) |->
               Entry(es[first[n]].k, es[lastOf(es[first[n]].k)].v)])

----------------------------------------------------------------------------
(* Key conversion.  A key is a string; Spelling gives its characters, on   *)
(* which the two regular-expression replacements work.                     *)

Spelling ==
    [ id             |-> <<"i","d">>,
      lastName       |-> <<"l","a","s","t","N","a","m","e">>,
      last_name      |-> <<"l","a","s","t","_","n","a","m","e">>,
      email          |-> <<"e","m","a","i","l">>,
      password       |-> <<"p","a","s","s","w","o","r","d">>,
      isAdmin        |-> <<"i","s","A","d","m","i","n">>,
      is_admin       |-> <<"i","s","_","a","d","m","i","n">>,
      createdAt      |-> <<"c","r","e","a","t","e","d","A","t">>,
      created_at     |-> <<"c","r","e","a","t","e","d","_","a","t">>,
      profile        |-> <<"p","r","o","f","i","l","e">>,
      posts          |-> <<"p","o","s","t","s">>,
      bio            |-> <<"b","i","o">>,
      website        |-> <<"w","e","b","s","i","t","e">>,
      title          |-> <<"t","i","t","l","e">>,
      nickName       |-> <<"n","i","c","k","N","a","m","e">>,
      nick_name      |-> <<"n","i","c","k","_","n","a","m","e">>,
      _originalState |-> <<"_","o","r","i","g","i","n","a","l","S","t","a","t","e">> ]

Lower == <<"a","b","c","d","e","f","g","h","i","j","k","l","m",
           "n","o","p","q","r","s","t","u","v","w","x","y","z">>
Upper == <<"A","B","C","D","E","F","G","H","I","J","K","L","M",
           "N","O","P","Q","R","S","T","U","V","W","X","Y","Z">>
IsLower(c) == \E i \in 1..26 : Lower[i] = c
IsUpper(c) == \E i \in 1..26 : Upper[i] = c
toUpperCase(c) == Upper[CHOOSE i \in 1..26 : Lower[i] = c]
toLowerCase(c) == Lower[CHOOSE i \in 1..26 : Upper[i] = c]

\* the characters of a key (an array index such as "0" is its own character)
Spell(k) == IF k \in DOMAIN Spelling THEN Spelling[k] ELSE <<k>>
\* the key with these characters
Name(cs) ==
    IF \E k \in DOMAIN Spelling : Spelling[k] = cs
    THEN CHOOSE k \in DOMAIN Spelling : Spelling[k] = cs
    ELSE cs[1]

RECURSIVE camelChars(_)
\* replace(/_([a-z])/g, (_, c) => c.toUpperCase())
camelChars(cs) ==
    IF cs = <<>> THEN <<>>
    ELSE IF Len(cs) >= 2 /\ cs[1] = "_" /\ IsLower(cs[2])
         THEN <<toUpperCase(cs[2])>> \o camelChars(SubSeq(cs, 3, Len(cs)))
         ELSE <<cs[1]>> \o camelChars(Tail(cs))

RECURSIVE snakeChars(_)
\* replace(/[A-Z]/g, c => `_${c.toLowerCase()}`)
snakeChars(cs) ==
    IF cs = <<>> THEN <<>>
    ELSE IF IsUpper(cs[1])
         THEN <<"_", toLowerCase(cs[1])>> \o snakeChars(Tail(cs))
         ELSE <<cs[1]>> \o snakeChars(Tail(cs))

\* The conversions of the spelled keys, computed once.
camelKeys == [k \in DOMAIN Spelling |-> Name(camelChars(Spelling[k]))]
snakeKeys == [k \in DOMAIN Spelling |-> Name(snakeChars(Spelling[k]))]
underscoreKeys == {k \in DOMAIN Spelling : Spelling[k][1] = "_"}

toCamelCaseKey(key) ==
    IF key \in DOMAIN Spelling THEN camelKeys[key] ELSE Name(camelChars(Spell(key)))
toSnakeCaseKey(key) ==
    IF key \in DOMAIN Spelling THEN snakeKeys[key] ELSE Name(snakeChars(Spell(key)))
\* key.startsWith('_')
startsWithUnderscore(key) ==
    IF key \in DOMAIN Spelling THEN key \in underscoreKeys ELSE Spell(key)[1] = "_"

RECURSIVE toCamelCase(_)
toCamelCase(obj) ==
    CASE obj.t = "ref" -> obj
      [] obj.t = "arr" -> Arr(Tup([i \in 1..Len(obj.s) |-> toCamelCase(obj.s[i])]))
      [] obj.t = "obj" ->
            Bind(Tup([i \in 1..Len(obj.s) |->
                         Entry(toCamelCaseKey(obj.s[i].k), toCamelCase(obj.s[i].v))]),
                 LAMBDA es : Obj(fromEntries(es)))
      [] OTHER -> obj

RECURSIVE toSnakeCase(_)
toSnakeCase(obj) ==
    CASE obj.t = "ref" -> obj
      [] obj.t = "arr" -> Arr(Tup([i \in 1..Len(obj.s) |-> toSnakeCase(obj.s[i])]))
      [] obj.t = "obj" ->
            Bind(Tup([i \in 1..Len(obj.s) |->
                         Entry(toSnakeCaseKey(obj.s[i].k), toSnakeCase(obj.s[i].v))]),
                 LAMBDA es : Obj(fromEntries(es)))
      [] OTHER -> obj

----------------------------------------------------------------------------
(* The field registry: what the decorators record per class.  The classes  *)
(* are the test suite's User, Profile and Post; beside its @Exclude,       *)
(* @Expose({groups: ['admin']}), @Readonly and @Type declarations, email   *)
(* carries @Expose() (no groups), id a @Transform, the nested classes an   *)
(* @Exclude field each and Post.createdAt a @Default, so that every branch *)
(* of the import and export code is exercised.                             *)

Classes == {"User", "Profile", "Post"}
NoFields == [k \in {} |-> ""]

\* @Type
types == [User    |-> [profile |-> "Profile", posts |-> "Post"],
          Profile |-> NoFields,
          Post    |-> NoFields]
\* @Exclude
excluded == [User |-> {"password"}, Profile |-> {"website"}, Post |-> {"createdAt"}]
\* @Readonly
readOnly == [User |-> {"createdAt"}, Profile |-> {}, Post |-> {}]
\* @Expose: the groups of each declared field, [] when none are given
exposed == [User    |-> [isAdmin |-> <<"admin">>, email |-> <<>>],
            Profile |-> NoFields,
            Post    |-> NoFields]
\* @Transform: id carries v => Math.min(v, 1)
transforms == [User |-> {"id"}, Profile |-> {}, Post |-> {}]
transformFn(val) == IF val.t = "num" /\ val.n > 1 THEN Num(1) ELSE val
\* @Default: Post.createdAt carries () => 1
defaults == [User    |-> <<>>,
             Profile |-> <<>>,
             Post    |-> <<Entry("createdAt", Num(1))>>]

\* Array.prototype.includes
Includes(s, x) == \E i \in 1..Len(s) : s[i] = x

----------------------------------------------------------------------------
(* The heap *)

Object(cls, props) == [cls |-> cls, props |-> props, frozen |-> FALSE]

\* new Profile(): the class's field initialisers
NewProfile == Object("Profile", <<Entry("bio", Num(0)), Entry("website", Num(0))>>)
NewPost == Object("Post", <<Entry("title", Num(0)), Entry("createdAt", Num(0))>>)
\* new User(): profile = new Profile() allocates the nested object
NewUser(profileId) ==
    Object("User",
        << Entry("id", Num(0)), Entry("lastName", Num(0)), Entry("email", Num(0)),
           Entry("password", Num(0)), Entry("isAdmin", Num(0)),
           Entry("createdAt", Num(0)), Entry("profile", Ref(profileId)),
           Entry("posts", Arr(<<>>)) >>)

\* new this(): the heap with the new object, and its identity
Construct(h, cls) ==
    CASE cls = "Profile" -> [h |-> Append(h, NewProfile), id |-> Len(h) + 1]
      [] cls = "Post" -> [h |-> Append(h, NewPost), id |-> Len(h) + 1]
      [] cls = "User" ->
            [h |-> h \o <<NewProfile, NewUser(Len(h) + 1)>>, id |-> Len(h) + 2]

\* this[key]
Get(h, id, key) == Lookup(h[id].props, key)
\* value instanceof ClassType
instanceOf(h, value, cls) == value.t = "ref" /\ h[value.n].cls = cls

\* this[key] = value, in strict-mode code: a TypeError on a frozen object
assign(h, id, key, value) ==
    IF h[id].frozen
    THEN [h |-> h, err |-> TRUE]
    ELSE [h |-> [h EXCEPT ![id].props = Put(@, key, value)], err |-> FALSE]

RECURSIVE applyDefaultsFrom(_, _, _)
applyDefaultsFrom(h, id, ds) ==
    IF ds = <<>> THEN h
    ELSE Bind(assign(h, id, Head(ds).k, Head(ds).v).h,
              LAMBDA set : applyDefaultsFrom(set, id, Tail(ds)))
applyDefaults(h, id) == applyDefaultsFrom(h, id, defaults[h[id].cls])

\* Object.entries
Entries(h, v) ==
    CASE v.t = "obj" -> v.s
      [] v.t = "ref" -> h[v.n].props
      [] v.t = "arr" -> Tup([i \in 1..Len(v.s) |-> Entry(ToString(i - 1), v.s[i])])
      [] OTHER -> <<>>

----------------------------------------------------------------------------
(* JSON.stringify, as the sequence of its tokens.  A Model instance has no *)
(* toJSON method: all its own properties are written, _originalState too.  *)

RECURSIVE JoinFrom(_, _)
JoinFrom(parts, i) ==
    IF i > Len(parts) THEN <<>>
    ELSE IF i = Len(parts) THEN parts[i]
    ELSE parts[i] \o <<",">> \o JoinFrom(parts, i + 1)
\* parts.join(',')
Join(parts) == JoinFrom(parts, 1)

RECURSIVE stringify(_, _)
stringifyMembers(h, es) ==
    Bind(SelectSeq(es, LAMBDA e : e.v.t # "undef"),
         LAMBDA present :
            Bind(Tup([i \in 1..Len(present) |->
                         <<present[i].k, ":">> \o stringify(h, present[i].v)]),
                 LAMBDA parts : <<"{">> \o Join(parts) \o <<"}">>))
stringify(h, v) ==
    CASE v.t = "undef" -> <<"undefined">>
      [] v.t = "null" -> <<"null">>
      [] v.t = "num" -> <<ToString(v.n)>>
      [] v.t = "bool" -> <<IF v.n = 1 THEN "true" ELSE "false">>
      [] v.t = "arr" ->
            Bind(Tup([i \in 1..Len(v.s) |->
                         IF v.s[i].t = "undef" THEN <<"null">>
                         ELSE stringify(h, v.s[i])]),
                 LAMBDA parts : <<"[">> \o Join(parts) \o <<"]">>)
      [] v.t = "obj" -> stringifyMembers(h, v.s)
      [] v.t = "ref" -> stringifyMembers(h, h[v.n].props)

----------------------------------------------------------------------------
(* Export *)

NoOptions == [group |-> "", onlyChanged |-> FALSE]

\* options.group && exposed[key] && !exposed[key].includes(options.group)
groupFiltered(cls, key, options) ==
    /\ options.group # ""
    /\ key \in DOMAIN exposed[cls]
    /\ ~Includes(exposed[cls][key], options.group)

\* options.onlyChanged && this._originalState && JSON.stringify(..) === JSON.stringify(..)
unchangedFiltered(h, id, key, options) ==
    /\ options.onlyChanged
    /\ ~Falsy(Get(h, id, "_originalState"))
    /\ stringify(h, Get(h, id, key))
         = stringify(h, Get(h, Get(h, id, "_originalState").n, key))

\* the four tests that end with continue
skipped(h, id, key, options) ==
    \/ startsWithUnderscore(key)
    \/ key \in excluded[h[id].cls]
    \/ groupFiltered(h[id].cls, key, options)
    \/ unchangedFiltered(h, id, key, options)

RECURSIVE toJson(_, _, _)
\* plain[toSnakeCaseKey(key)] = ..., for every key the loop does not skip
toJson(h, id, options) ==
    Bind(SelectSeq(h[id].props, LAMBDA e : ~skipped(h, id, e.k, options)),
         LAMBDA kept :
            Bind(Tup([i \in 1..Len(kept) |->
                         Entry(toSnakeCaseKey(kept[i].k),
                               IF kept[i].v.t = "ref"
                               THEN toJson(h, kept[i].v.n, options)
                               ELSE toSnakeCase(kept[i].v))]),
                 LAMBDA es : Obj(fromEntries(es))))

----------------------------------------------------------------------------
(* Import *)

RECURSIVE fromJson(_, _, _, _), applyJson(_, _, _), applyEntries(_, _, _),
          coerce(_, _, _), coerceAll(_, _, _), clone(_, _)

\* ClassType.fromJson(v) whatever v is: the coercion without its instanceof test
coerceAlways(h, cls, v) ==
    Bind(fromJson(h, cls, v, FALSE),
         LAMBDA made : [h |-> made.h, v |-> Ref(made.id)])

\* v instanceof ClassType ? v : ClassType.fromJson(v)
coerce(h, cls, v) ==
    IF instanceOf(h, v, cls) THEN [h |-> h, v |-> v]
    ELSE Bind(fromJson(h, cls, v, FALSE),
              LAMBDA made : [h |-> made.h, v |-> Ref(made.id)])

\* value.map(v => ...)
coerceAll(h, cls, vs) ==
    IF vs = <<>> THEN [h |-> h, v |-> Arr(<<>>)]
    ELSE Bind(coerce(h, cls, Head(vs)),
              LAMBDA first :
                 Bind(coerceAll(first.h, cls, Tail(vs)),
                      LAMBDA rest : [h |-> rest.h, v |-> Arr(<<first.v>> \o rest.v.s)]))

\* the value a field takes: transformed, then made an instance of its @Type
converted(h, cls, key, val) ==
    Bind(IF key \in transforms[cls] THEN transformFn(val) ELSE val,
         LAMBDA value :
            IF key \in DOMAIN types[cls]
            THEN IF value.t = "arr"
                 THEN coerceAll(h, types[cls][key], value.s)
                 ELSE coerce(h, types[cls][key], value)
            ELSE [h |-> h, v |-> value])

\* the loop of applyJson over Object.entries(camel)
applyEntries(h, id, es) ==
    IF es = <<>> THEN [h |-> h, err |-> FALSE]
    ELSE IF Head(es).k \in readOnly[h[id].cls] THEN applyEntries(h, id, Tail(es))
    ELSE Bind(converted(h, h[id].cls, Head(es).k, Head(es).v),
              LAMBDA typed :
                 Bind(assign(typed.h, id, Head(es).k, typed.v),
                      LAMBDA done :
                         IF done.err THEN done
                         ELSE applyEntries(done.h, id, Tail(es))))

applyJson(h, id, json) ==
    IF Falsy(json) THEN [h |-> h, err |-> FALSE]
    ELSE Bind(Entries(h, toCamelCase(json)), LAMBDA es : applyEntries(h, id, es))

\* The hooks beforeApplyJson / afterApplyJson are optional and no class here
\* defines them.  A new object is not frozen, so applyJson cannot throw here.
fromJson(h, cls, json, skipOriginalState) ==
    Bind(Construct(h, cls),
         LAMBDA made :
            Bind(applyDefaults(made.h, made.id),
                 LAMBDA ready :
                    Bind(applyJson(ready, made.id, json).h,
                         LAMBDA filled :
                            IF skipOriginalState THEN [h |-> filled, id |-> made.id]
                            ELSE Bind(clone(filled, made.id),
                                      LAMBDA copy :
                                         [h |-> assign(copy.h, made.id,
                                                       "_originalState", Ref(copy.id)).h,
                                          id |-> made.id]))))

clone(h, id) ==
    Bind(toJson(h, id, NoOptions), LAMBDA plain : fromJson(h, h[id].cls, plain, TRUE))

----------------------------------------------------------------------------
(* Change tracker *)

\* the entries of the returned object
diff(h, id, other) ==
    SelectSeq(h[id].props,
              LAMBDA e : stringify(h, e.v) # stringify(h, Get(h, other, e.k)))

isEqual(h, id, other) ==
    stringify(h, toJson(h, id, NoOptions)) = stringify(h, toJson(h, other, NoOptions))

reset(h, id) ==
    IF ~Falsy(Get(h, id, "_originalState"))
    THEN Bind(toJson(h, Get(h, id, "_originalState").n, NoOptions),
              LAMBDA plain : applyJson(h, id, plain))
    ELSE [h |-> h, err |-> FALSE]

\* a freeze() that leaves the object writable
freezeIgnored(h, id) == h

\* Object.freeze(this)
freeze(h, id) == [h EXCEPT ![id].frozen = TRUE]

merge(h, id, other) == applyJson(h, id, other)

getChangesSince(h, id) ==
    IF Falsy(Get(h, id, "_originalState")) THEN <<>>
    ELSE diff(h, id, Get(h, id, "_originalState").n)

----------------------------------------------------------------------------
(* The application: what it passes in, and what it assigns directly *)

Vals == 1..MaxVal
Groups == {"", "admin", "user"}
Options == [group : Groups, onlyChanged : BOOLEAN]

One(k, v) == Obj(<<Entry(k, v)>>)
RawPost(v) == One("title", Num(v))

\* A document like the test suite's, with a key no field matches.
Fixture ==
    Obj(<< Entry("id", Num(2)), Entry("last_name", Num(1)), Entry("password", Num(1)),
           Entry("is_admin", Num(1)), Entry("created_at", Num(1)),
           Entry("profile", Obj(<<Entry("bio", Num(1)), Entry("website", Num(1))>>)),
           Entry("posts", Arr(<<Obj(<<Entry("title", Num(1)),
                                      Entry("created_at", Num(1))>>)>>)),
           Entry("nick_name", Num(1)) >>)

\* The documents handed to User.fromJson
Documents == {Obj(<<>>), Fixture}

\* The documents handed to applyJson
Inputs ==
    {Undef, One("profile", Null), One("nick_name", Num(1)),
     Obj(<<Entry("created_at", Num(1)), Entry("password", Num(1))>>),
     Obj(<<Entry("id", Num(2)), Entry("is_admin", Num(1))>>)}
    \cup {One("last_name", Num(v)) : v \in Vals}
    \cup {One("profile", One("bio", Num(v))) : v \in Vals}
    \cup {One("posts", Arr(<<RawPost(v)>>)) : v \in Vals}

\* The partial objects handed to merge
Partials == {One("lastName", Num(v)) : v \in Vals}

\* posts: [existingPostInstance, {title: v}]
Mixed(existing, v) == One("posts", Arr(<<Ref(existing), RawPost(v)>>))

\* Fields the application assigns directly
Assignable == {"lastName", "createdAt"}

Void == Undef
TypeError == [t |-> "throw", n |-> 0, s |-> <<>>]
Called(op, arg, ret) == [op |-> op, arg |-> arg, ret |-> ret]

\* every own field but _originalState, with its serialised value
FieldView(h, id) ==
    LET own == SelectSeq(h[id].props, LAMBDA e : e.k # "_originalState")
    IN Tup([i \in 1..Len(own) |-> [k |-> own[i].k, json |-> stringify(h, own[i].v)]])

----------------------------------------------------------------------------
(* Actions *)

Born(made, json) ==
    /\ heap' = made.h
    /\ user' = made.id
    /\ atBirth' = FieldView(made.h, made.id)
    /\ last' = Called("fromJson", json, Ref(made.id))
    /\ UNCHANGED <<ops, freezeCalled>>

\* user = User.fromJson(json)
FromJson(json) ==
    /\ user = 0
    /\ \E made \in {fromJson(heap, "User", json, FALSE)} : Born(made, json)

\* existing = Post.fromJson({title: v}); user = User.fromJson({posts: [existing, {title: v}]})
FromJsonMixed(v) ==
    /\ user = 0
    /\ \E existing \in {fromJson(heap, "Post", RawPost(v), FALSE)} :
          \E made \in {fromJson(existing.h, "User", Mixed(existing.id, v), FALSE)} :
             Born(made, Mixed(existing.id, v))

\* what a call that may throw leaves behind: what it did before it threw stays
Returned(op, json, done) ==
    /\ heap' = done.h
    /\ last' = Called(op, json, IF done.err THEN TypeError ELSE Void)
    /\ ops' = ops + 1
    /\ UNCHANGED <<user, atBirth, freezeCalled>>

\* user.applyJson(json)
ApplyJson(json) ==
    /\ user # 0 /\ ops < MaxOps
    /\ \E done \in {applyJson(heap, user, json)} :
          Returned("applyJson", json, done)

\* existing = Post.fromJson({title: v}); user.applyJson({posts: [existing, {title: v}]})
ApplyJsonMixed(v) ==
    /\ user # 0 /\ ops < MaxOps
    /\ \E existing \in {fromJson(heap, "Post", RawPost(v), FALSE)} :
          \E done \in {applyJson(existing.h, user, Mixed(existing.id, v))} :
             Returned("applyJson", Mixed(existing.id, v), done)

\* user.merge(json)
Merge(json) ==
    /\ user # 0 /\ ops < MaxOps
    /\ \E done \in {merge(heap, user, json)} : Returned("merge", json, done)

\* user.reset()
Reset ==
    /\ user # 0 /\ ops < MaxOps
    /\ \E done \in {reset(heap, user)} : Returned("reset", Undef, done)

\* user.freeze()
Freeze ==
    /\ user # 0 /\ ops < MaxOps
    /\ heap' = freeze(heap, user)
    /\ freezeCalled' = TRUE
    /\ last' = Called("freeze", Undef, Void)
    /\ ops' = ops + 1
    /\ UNCHANGED <<user, atBirth>>

\* user[key] = v, in the application's (strict-mode) code
Assign(key, v) ==
    /\ user # 0 /\ ops < MaxOps
    /\ Returned("assign", One(key, Num(v)), assign(heap, user, key, Num(v)))

\* user.profile.bio = v
AssignProfile(v) ==
    /\ user # 0 /\ ops < MaxOps
    /\ Get(heap, user, "profile").t = "ref"
    /\ Returned("assignProfile", Num(v),
                assign(heap, Get(heap, user, "profile").n, "bio", Num(v)))

\* user.posts[i - 1].title = v
AssignPost(i, v) ==
    /\ user # 0 /\ ops < MaxOps
    /\ Get(heap, user, "posts").t = "arr"
    /\ i \in 1..Len(Get(heap, user, "posts").s)
    /\ Returned("assignPost", Arr(<<Num(i - 1), Num(v)>>),
                assign(heap, Get(heap, user, "posts").s[i].n, "title", Num(v)))

\* The queries read the instance and hand back a value: no state changes.

\* user.toJson(options)
ToJson(options) ==
    /\ user # 0
    /\ toJson(heap, user, options).t = "obj"
    /\ UNCHANGED vars

\* user.getChangesSince()
GetChangesSince ==
    /\ user # 0
    /\ Len(getChangesSince(heap, user)) >= 0
    /\ UNCHANGED vars

\* c = user.clone(); user.isEqual(c)
IsEqualClone ==
    /\ user # 0
    /\ \E copy \in {clone(heap, user)} : isEqual(copy.h, user, copy.id) \in BOOLEAN
    /\ UNCHANGED vars

Init ==
    /\ heap = <<>>
    /\ user = 0
    /\ last = Called("none", Undef, Void)
    /\ ops = 0
    /\ atBirth = <<>>
    /\ freezeCalled = FALSE

Next ==
    \/ \E json \in Documents : FromJson(json)
    \/ \E v \in Vals : FromJsonMixed(v)
    \/ \E json \in Inputs : ApplyJson(json)
    \/ \E v \in Vals : ApplyJsonMixed(v)
    \/ \E json \in Partials : Merge(json)
    \/ Reset
    \/ Freeze
    \/ \E key \in Assignable, v \in Vals : Assign(key, v)
    \/ \E v \in Vals : AssignProfile(v)
    \/ \E i \in 1..2, v \in Vals : AssignPost(i, v)
    \/ \E options \in Options : ToJson(options)
    \/ GetChangesSince
    \/ IsEqualClone

Spec == Init /\ [][Next]_vars

----------------------------------------------------------------------------
(* Properties of the library *)

Snapshot == Get(heap, user, "_originalState")
HasSnapshot == user # 0 /\ Snapshot.t = "ref"
KeySet(es) == {es[i].k : i \in 1..Len(es)}
\* the input keys that name the field, and what the input gives it
Carries(json, field) ==
    json.t = "obj" /\ \E i \in 1..Len(json.s) : toCamelCaseKey(json.s[i].k) = field
Given(json, field) == Lookup(toCamelCase(json).s, field)
\* a step that is a call of one of these operations
Step(opNames) == last'.op \in opNames /\ (ops' = ops + 1 \/ user = 0)

\* C1: a read-only field is assigned by fromJson from the input key that maps
\* to it, and no later applyJson or merge carrying that key changes it.
C1_ReadonlySetOnlyAtHydration ==
    [][\A field \in readOnly["User"] :
          /\ (Step({"fromJson"}) /\ Carries(last'.arg, field))
                => Get(heap', user', field) = Given(last'.arg, field)
          /\ (Step({"applyJson", "merge"}) /\ Carries(last'.arg, field))
                => Get(heap', user, field) = Get(heap, user, field)]_vars

\* the fields whose value is no longer the one held after construction
ChangedSinceBirth ==
    LET now == FieldView(heap, user)
    IN {now[i].k : i \in {j \in 1..Len(now) :
                            j > Len(atBirth) \/ now[j] # atBirth[j]}}

\* C2: getChangesSince() holds exactly the fields whose value differs from the
\* one held right after construction: none while nothing was mutated.
C2_ChangesAreTheMutatedFields ==
    HasSnapshot => KeySet(getChangesSince(heap, user)) = ChangedSinceBirth

\* C3: after reset() every field has the value it had when fromJson returned,
\* and getChangesSince() is empty.
C3_ResetRestoresOriginal ==
    (HasSnapshot /\ last.op = "reset" /\ last.ret = Void /\ ~freezeCalled)
        => /\ FieldView(heap, user) = atBirth
           /\ getChangesSince(heap, user) = <<>>

\* whether the exported mapping has the field
Emitted(field, group) ==
    Has(toJson(heap, user, [group |-> group, onlyChanged |-> FALSE]).s,
        toSnakeCaseKey(field))
GroupsOf(field) ==
    IF field \in DOMAIN exposed["User"] THEN exposed["User"][field] ELSE <<>>

\* C4: a field exposed to groups is exported exactly for those groups, and
\* not when no group is asked for; a field with no groups is exported for
\* every group asked for.
C4_GroupFiltering ==
    user # 0 =>
        \A field \in KeySet(heap[user].props) \ ({"_originalState"} \cup excluded["User"]) :
            IF GroupsOf(field) # <<>>
            THEN \A group \in Groups : Emitted(field, group) <=> Includes(GroupsOf(field), group)
            ELSE \A group \in Groups \ {""} : Emitted(field, group)

RECURSIVE Leaks(_, _, _)
\* whether the output made for an instance of cls carries an excluded field,
\* its own or one of a nested model
Leaks(h, out, cls) ==
    CASE out.t = "ref" ->
            \E key \in excluded[h[out.n].cls] : Has(h[out.n].props, key)
      [] out.t = "arr" -> \E i \in 1..Len(out.s) : Leaks(h, out.s[i], cls)
      [] out.t = "obj" ->
            \E i \in 1..Len(out.s) :
                \/ toCamelCaseKey(out.s[i].k) \in excluded[cls]
                \/ /\ toCamelCaseKey(out.s[i].k) \in DOMAIN types[cls]
                   /\ Leaks(h, out.s[i].v, types[cls][toCamelCaseKey(out.s[i].k)])
      [] OTHER -> FALSE

\* C5: no toJson() output carries an excluded field, of the instance or of a
\* nested model, whatever the options.
C5_ExcludedNeverExported ==
    user # 0 => \A options \in Options : ~Leaks(heap, toJson(heap, user, options), "User")

\* the fields the class declares
Declared == KeySet(NewUser(0).props)
Unknown(json) ==
    {i \in 1..Len(json.s) : toCamelCaseKey(json.s[i].k) \notin Declared}
Known(json) == Obj(SelectSeq(json.s, LAMBDA e : toCamelCaseKey(e.k) \in Declared))

\* C6: an input key that matches no field is dropped: the call does not
\* throw, leaves the instance as the input without that key would, and no
\* later toJson() output has the key.
C6_UnknownKeysDropped ==
    [][(Step({"fromJson", "applyJson", "merge"})
            /\ last'.arg.t = "obj" /\ Unknown(last'.arg) # {})
        => /\ last'.ret # TypeError \/ freezeCalled
           /\ heap' = IF user = 0 THEN fromJson(heap, "User", Known(last'.arg), FALSE).h
                      ELSE applyJson(heap, user, Known(last'.arg)).h
           /\ \A options \in Options :
                 \A i \in Unknown(last'.arg) :
                    ~Has(toJson(heap', user', options).s, last'.arg.s[i].k)]_vars

\* the fields of the clone that the application may assign
Scalars == {"id", "lastName", "email", "isAdmin", "createdAt"}

\* C7: a.isEqual(a.clone()) holds right after cloning, and assigning another
\* value to a non-excluded field of the clone makes it false.
C7_CloneIsEqual ==
    user # 0 =>
        \E copy \in {clone(heap, user)} :
            /\ isEqual(copy.h, user, copy.id)
            /\ \A key \in Scalars, v \in 0..MaxVal :
                  Get(copy.h, copy.id, key) # Num(v)
                     => ~isEqual(assign(copy.h, copy.id, key, Num(v)).h, user, copy.id)

\* the Model instances a value refers to
RECURSIVE RefsIn(_)
RefsIn(v) ==
    CASE v.t = "ref" -> {v.n}
      [] v.t = "arr" -> UNION {RefsIn(v.s[i]) : i \in 1..Len(v.s)}
      [] v.t = "obj" -> UNION {RefsIn(v.s[i].v) : i \in 1..Len(v.s)}
      [] OTHER -> {}
RefsOf(h, id, hidden) ==
    UNION {RefsIn(h[id].props[i].v) :
             i \in {j \in 1..Len(h[id].props) : h[id].props[j].k \notin hidden}}
RECURSIVE Closure(_, _)
Closure(h, ids) ==
    LET more == ids \cup UNION {RefsOf(h, id, {}) : id \in ids}
    IN IF more = ids THEN ids ELSE Closure(h, more)
\* the instances reachable from the snapshot, and from the live instance
\* other than through its snapshot
FromSnapshot(h, id) == Closure(h, {Get(h, id, "_originalState").n})
FromLive(h, id) == Closure(h, {id} \cup RefsOf(h, id, {"_originalState"}))

WouldAssign(h, id, op, json) ==
    IF op = "reset"
    THEN /\ Get(h, id, "_originalState").t = "ref"
         /\ \E key \in KeySet(toJson(h, Get(h, id, "_originalState").n, NoOptions).s) :
               toCamelCaseKey(key) \notin readOnly[h[id].cls]
    ELSE /\ json.t = "obj"
         /\ \E i \in 1..Len(json.s) : toCamelCaseKey(json.s[i].k) \notin readOnly[h[id].cls]

\* C9: once freeze() was called the instance stays frozen; no applyJson,
\* merge or reset changes or adds an own field, and each such call that has a
\* field to assign throws.
C9_FrozenRejectsImports ==
    [][freezeCalled =>
          /\ freezeCalled' /\ heap'[user].frozen
          /\ Step({"applyJson", "merge", "reset"}) =>
                /\ heap'[user].props = heap[user].props
                /\ WouldAssign(heap, user, last'.op, last'.arg) => last'.ret = TypeError]_vars

C9_Witness ==
    /\ freezeCalled
    /\ last.op \in {"applyJson", "merge", "reset"}
    /\ last.ret = TypeError

\* a field declared with @Type holds an instance, a sequence of instances, or nothing
TypedOK(h) ==
    \A id \in 1..Len(h) :
        \A key \in DOMAIN types[h[id].cls] :
            LET value == Get(h, id, key)
                cls == types[h[id].cls][key]
            IN \/ value.t = "undef"
               \/ instanceOf(h, value, cls)
               \/ /\ value.t = "arr"
                  /\ \A i \in 1..Len(value.s) : instanceOf(h, value.s[i], cls)

\* what an import made of the sequence given for a typed field
SequenceKept(before, after, target, given, cls) ==
    /\ target.t = "arr" /\ Len(target.s) = Len(given.s)
    /\ \A i \in 1..Len(given.s) :
          IF instanceOf(after, given.s[i], cls)
          THEN target.s[i] = given.s[i]
          ELSE /\ instanceOf(after, target.s[i], cls)
               /\ target.s[i].n > Len(before)
               /\ \A n \in 1..Len(given.s[i].s) :
                     Get(after, target.s[i].n, toCamelCaseKey(given.s[i].s[n].k))
                        = given.s[i].s[n].v

\* C10: after any import or reset, a field declared with @Type(C) holds an
\* instance of C, a sequence of instances of C, or nothing; of a sequence
\* given, the instances of C stay, the same objects at the same places, and a
\* new C is built from every other element.
C10_TypedFieldsHoldInstances ==
    [][/\ TypedOK(heap')
       /\ \A key \in DOMAIN types["User"] :
             (/\ Step({"fromJson", "applyJson", "merge"})
              /\ last'.ret # TypeError
              /\ Carries(last'.arg, key)
              /\ Given(last'.arg, key).t = "arr")
                => SequenceKept(heap, heap', Get(heap', user', key),
                                Given(last'.arg, key), types["User"][key])]_vars

C10_Witness ==
    /\ user # 0
    /\ last.op \in {"fromJson", "applyJson"}
    /\ Carries(last.arg, "posts")
    /\ Len(Given(last.arg, "posts").s) = 2
    /\ Given(last.arg, "posts").s[1].t = "ref"
    /\ Get(heap, user, "posts").s[1] = Given(last.arg, "posts").s[1]
    /\ Get(heap, user, "posts").s[2].t = "ref"
    /\ Get(heap, user, "posts").s[2] # Get(heap, user, "posts").s[1]
====
